---- MODULE Spec2Model ----
(***************************************************************************)
(* A model of enomdash.py, the ENOM dashboard: the data loaders, the       *)
(* cascading selectors of the Regional, Site and KPI tabs, the session     *)
(* state that remembers the site id, plot_line_chart and color_final_kpi.  *)
(*                                                                         *)
(* A string is a sequence of one-character strings, so that strip, [:3],   *)
(* title, sorted and str.contains are computed character by character.     *)
(* A missing cell (pandas NaN) is the value NaN below.  A data frame is a  *)
(* sequence of rows, a row a record keyed by column name.                  *)
(*                                                                         *)
(* st.tabs renders the blocks of a page one after the other; the blocks    *)
(* share neither widget keys nor data, and each block is modelled as the   *)
(* run that follows a change of one of its widgets.                        *)
(***************************************************************************)
EXTENDS Integers, Sequences, FiniteSets, TLC

VARIABLES
    tab,            \* the tab the user works in: "regional", "site" or "kpi"
    loaded,         \* whether the cached loader of that tab's data has run
    regional_csv,   \* rows of data/availability_regional.csv
    site_csv,       \* rows of data/availability_site.csv
    kpi_xlsx,       \* rows of sheet KPI of data/enom_kpi.xlsx
    regional_data,  \* load_data_ava_monthly()[0]
    site_data,      \* load_data_ava_monthly()[2]
    df_kpi,         \* load_kpi_data()
    session,        \* st.session_state: the widget values by key
    site_view,      \* what the last run of the Site tab computed
    kpi_view,       \* what the last run of the KPI tab computed
    chart           \* what the last call of plot_line_chart did

vars ==
    <<tab, loaded, regional_csv, site_csv, kpi_xlsx, regional_data,
      site_data, df_kpi, session, site_view, kpi_view, chart>>

----------------------------------------------------------------------------
(* Bounds of the model. *)

\* rows of availability_regional.csv
MaxRows == 3
\* rows of availability_site.csv
MaxSiteRows == 2
\* rows of sheet KPI of enom_kpi.xlsx
MaxKpiRows == 2

----------------------------------------------------------------------------
(* Characters and strings. *)

Lowers == <<"a","b","c","d","e","f","g","h","i","j","k","l","m",
            "n","o","p","q","r","s","t","u","v","w","x","y","z">>
Uppers == <<"A","B","C","D","E","F","G","H","I","J","K","L","M",
            "N","O","P","Q","R","S","T","U","V","W","X","Y","Z">>
Digits == <<"0","1","2","3","4","5","6","7","8","9">>

\* the characters of the model in code-point order
AsciiOrder == <<" ", "-", ".", "/">> \o Digits \o Uppers \o Lowers

IndexOf(seq, c) ==
    IF \E i \in 1..Len(seq) : seq[i] = c
    THEN CHOOSE i \in 1..Len(seq) : seq[i] = c
    ELSE 0

ord(c) == IndexOf(AsciiOrder, c)
IsLower(c) == IndexOf(Lowers, c) # 0
IsUpper(c) == IndexOf(Uppers, c) # 0
IsAlpha(c) == IsLower(c) \/ IsUpper(c)
IsDigit(c) == IndexOf(Digits, c) # 0
lower(c) == IF IsUpper(c) THEN Lowers[IndexOf(Uppers, c)] ELSE c
upper(c) == IF IsLower(c) THEN Uppers[IndexOf(Lowers, c)] ELSE c

SetMin(S) == CHOOSE x \in S : \A y \in S : x <= y
SetMax(S) == CHOOSE x \in S : \A y \in S : x >= y

\* a missing cell
NaN == <<"NaN">>
\* the wildcard entry of every selector
All == <<"A","l","l">>

\* Python's order of two strings
StrLess(a, b) ==
    LET n == IF Len(a) < Len(b) THEN Len(a) ELSE Len(b)
        d == {i \in 1..n : a[i] # b[i]}
    IN  IF d = {} THEN Len(a) < Len(b)
        ELSE ord(a[SetMin(d)]) < ord(b[SetMin(d)])

\* str.strip()
strip(s) ==
    LET idx == {i \in 1..Len(s) : s[i] # " "}
    IN  IF idx = {} THEN <<>> ELSE SubSeq(s, SetMin(idx), SetMax(idx))

\* str[:3]
first3(s) == SubSeq(s, 1, IF Len(s) < 3 THEN Len(s) ELSE 3)

\* str.title(): a letter after a letter is lowered, any other letter raised
title(s) ==
    [i \in 1..Len(s) |->
        IF IsAlpha(s[i])
        THEN IF i > 1 /\ IsAlpha(s[i-1]) THEN lower(s[i]) ELSE upper(s[i])
        ELSE s[i]]

\* astype(str): a missing cell becomes the text "nan"
astype_str(v) == IF v = NaN THEN <<"n","a","n">> ELSE v

\* the sorted list of a set of strings
RECURSIVE sorted(_)
sorted(S) ==
    IF S = {} THEN <<>>
    ELSE LET m == CHOOSE x \in S : \A y \in S : y = x \/ StrLess(x, y)
         IN  <<m>> \o sorted(S \ {m})

Range(s) == {s[i] : i \in 1..Len(s)}

\* every sequence of at most n members of S
SeqsUpTo(S, n) == UNION {[1..k -> S] : k \in 0..n}

Reverse(s) == [i \in 1..Len(s) |-> s[Len(s) + 1 - i]]

----------------------------------------------------------------------------
(* Data frames. *)

\* df[df[col] == val]; a missing cell equals nothing
RowsEqual(df, col, val) ==
    SelectSeq(df, LAMBDA r : r[col] # NaN /\ r[col] = val)

\* df[col].dropna().unique()
unique(df, col) == {df[i][col] : i \in 1..Len(df)} \ {NaN}

\* ["All"] + sorted(df[col].dropna().unique())
OptionList(df, col) == <<All>> \o sorted(unique(df, col))

\* "if selected != 'All': df = df[df[col] == selected]", used on the narrowed
\* frame by the selectors; the mutant narrows the complete frame instead
NarrowFromFull(full, df, col, selected) ==
    IF selected # All THEN RowsEqual(full, col, selected) ELSE df

Narrow(full, df, col, selected) ==
    IF selected # All THEN RowsEqual(df, col, selected) ELSE df

\* st.selectbox(label, options, key=...): the stored value of the widget, or
\* the first option when the widget has none among its options
selectbox(options, stored) ==
    IF stored \in Range(options) THEN stored ELSE options[1]

\* one selector of a cascade, on the record acc of the selectors before it:
\* it shows options, returns its value, and the frame the block narrows (the
\* field frame of acc) keeps the rows with that value in column col
Selector(full, acc, frame, col, list_name, selected_name, options, stored) ==
    [acc EXCEPT ![list_name] = options,
                ![selected_name] = selectbox(options, stored),
                ![frame] = Narrow(full, @, col, selectbox(options, stored))]

----------------------------------------------------------------------------
(* load_data_ava_monthly *)

clean_month_skipped(v) == v

\* df['Month'].astype(str).str.strip().str[:3].str.title(), one cell
clean_month_value(v) == title(first3(strip(astype_str(v))))

clean_month(df) ==
    [i \in 1..Len(df) |-> [df[i] EXCEPT !.Month = clean_month_value(@)]]

----------------------------------------------------------------------------
(* pd.to_numeric(..., errors='coerce'), in hundredths. *)

\* the number that stands for a float NaN
NaNNum == -1

DigitVal(c) == IndexOf(Digits, c) - 1

RECURSIVE NumOf(_)
NumOf(s) ==
    IF s = <<>> THEN 0
    ELSE NumOf(SubSeq(s, 1, Len(s) - 1)) * 10 + DigitVal(s[Len(s)])

\* whether t reads as a decimal literal: digits and at most one point
IsDecimal(t) ==
    /\ \A i \in 1..Len(t) : IsDigit(t[i]) \/ t[i] = "."
    /\ \E i \in 1..Len(t) : IsDigit(t[i])
    /\ Cardinality({i \in 1..Len(t) : t[i] = "."}) <= 1

\* the value, in hundredths, of the integer part ip and the decimals fp
Hundredths(ip, fp) ==
    NumOf(ip) * 100
        + (IF Len(fp) >= 1 THEN DigitVal(fp[1]) ELSE 0) * 10
        + (IF Len(fp) >= 2 THEN DigitVal(fp[2]) ELSE 0)

\* the value of the decimal literal t whose point is at dot (Len(t) + 1
\* when it has none)
DecimalAt(t, dot) ==
    Hundredths(SubSeq(t, 1, dot - 1), SubSeq(t, dot + 1, Len(t)))

\* the stripped cell t as a number
ParseDecimal(t) ==
    IF IsDecimal(t)
    THEN DecimalAt(t, IF \E i \in 1..Len(t) : t[i] = "."
                      THEN CHOOSE i \in 1..Len(t) : t[i] = "."
                      ELSE Len(t) + 1)
    ELSE NaNNum

\* a decimal literal with at most two decimals, in hundredths; anything else
\* (a missing cell, a text) is NaN
to_numeric(v) == IF v = NaN THEN NaNNum ELSE ParseDecimal(strip(v))

----------------------------------------------------------------------------
(* plot_line_chart *)

valid_months ==
    << <<"J","a","n">>, <<"F","e","b">>, <<"M","a","r">>, <<"A","p","r">>,
       <<"M","a","y">>, <<"J","u","n">>, <<"J","u","l">>, <<"A","u","g">>,
       <<"S","e","p">>, <<"O","c","t">>, <<"N","o","v">>, <<"D","e","c">> >>

\* for col, val in filters.items(): if val != "All": filtered = filtered[...]
RECURSIVE ApplyFilters(_, _)
ApplyFilters(df, filters) ==
    IF filters = <<>> THEN df
    ELSE LET col == filters[1][1]
             val == filters[1][2]
         IN  ApplyFilters(IF val # All THEN RowsEqual(df, col, val) ELSE df,
                          Tail(filters))

never_empty(df) == FALSE

\* filtered.empty
empty(df) == Len(df) = 0

RECURSIVE SumAva(_)
SumAva(rows) == IF rows = <<>> THEN 0 ELSE rows[1].Ava + SumAva(Tail(rows))

\* .mean() then .astype(float).round(2): the nearest hundredth
MeanAva(rows) == (2 * SumAva(rows) + Len(rows)) \div (2 * Len(rows))

GroupKeyLess(p, q) ==
    StrLess(p[1], q[1]) \/ (p[1] = q[1] /\ StrLess(p[2], q[2]))

RECURSIVE SortedKeys(_)
SortedKeys(S) ==
    IF S = {} THEN <<>>
    ELSE LET m == CHOOSE x \in S : \A y \in S : y = x \/ GroupKeyLess(x, y)
         IN  <<m>> \o SortedKeys(S \ {m})

\* the frame of the groups keys of the rows keyed: a row for each key, with
\* the mean of its rows
GroupMeans(keyed, group_col, keys) ==
    [k \in 1..Len(keys) |->
        [Month |-> keys[k][1],
         key   |-> keys[k][2],
         Ava   |-> MeanAva(SelectSeq(keyed,
                    LAMBDA r : r.Month = keys[k][1]
                               /\ r[group_col] = keys[k][2]))]]

\* the groups of the rows keyed, in the order of the keys
GroupKeys(keyed, group_col) ==
    GroupMeans(keyed, group_col,
               SortedKeys({<<keyed[i].Month, keyed[i][group_col]>> :
                              i \in 1..Len(keyed)}))

\* filtered.groupby(["Month", group_col], as_index=False)[...].mean(): one
\* row per (Month, group_col) of the rows, in the order of the keys; a row
\* whose key is missing is in no group
groupby(rows, group_col) ==
    GroupKeys(SelectSeq(rows, LAMBDA r : r[group_col] # NaN), group_col)

\* pd.to_datetime(label + '-2025', format='%b-%Y'): the month of 2025, or 0
\* when the label is no month name (the call raises)
to_datetime(label) == IndexOf(valid_months, title(label))

ChartOrderByLabel(p, q) ==
    \/ StrLess(valid_months[p.Month], valid_months[q.Month])
    \/ p.Month = q.Month /\ StrLess(p.key, q.key)

\* grouped.sort_values(by=['Month', group_col]): whether p comes before q
ChartOrder(p, q) ==
    \/ p.Month < q.Month
    \/ p.Month = q.Month /\ StrLess(p.key, q.key)

\* the end of a call on the frame valid, the groups whose month is one of
\* valid_months: st.error and return when pd.to_datetime raises, else the
\* groups dated, sorted and charted
plot_valid(valid, base) ==
    IF \E i \in 1..Len(valid) : to_datetime(valid[i].Month) = 0
    THEN [base EXCEPT !.status = "error", !.coerced = TRUE]
    ELSE [base EXCEPT
            !.status = "chart", !.coerced = TRUE,
            !.grouped = SortSeq([i \in 1..Len(valid) |->
                                    [valid[i] EXCEPT !.Month = to_datetime(@)]],
                                ChartOrder)]

\* a call from the frame grouped: the month labels normalized again, the
\* groups of no month of valid_months dropped
plot_grouped(grouped, base) ==
    plot_valid(
        SelectSeq([i \in 1..Len(grouped) |->
                      [grouped[i] EXCEPT !.Month = title(first3(strip(@)))]],
                  LAMBDA p : p.Month \in Range(valid_months)),
        base)

\* a call from the frame filtered: st.warning and return when it is empty,
\* else the metric coerced, the rows without a metric or a month dropped, the
\* rest grouped
plot_filtered(filtered, base) ==
    IF empty(filtered) THEN base
    ELSE plot_grouped(
             groupby(SelectSeq([i \in 1..Len(filtered) |->
                                   [filtered[i] EXCEPT !.Ava = to_numeric(@)]],
                               LAMBDA r : r.Ava # NaNNum /\ r.Month # NaN),
                     base.group_col),
             base)

\* a call whose filters left the frame filtered
plot_filters_applied(filtered, group_col, filters) ==
    plot_filtered(filtered,
                  [status |-> "warning", group_col |-> group_col,
                   filters |-> filters, filtered |-> filtered,
                   coerced |-> FALSE, grouped |-> <<>>])

\* what one call does: status is "warning" (st.warning and return), "error"
\* (st.error and return) or "chart" (st.plotly_chart); coerced tells whether
\* the call went on to pd.to_numeric; grouped is the frame given to px.line
plot_line_chart(df, group_col, filters) ==
    plot_filters_applied(ApplyFilters(df, filters), group_col, filters)

\* no call yet
NoChart ==
    [status |-> "none", group_col |-> "", filters |-> <<>>,
     filtered |-> <<>>, coerced |-> FALSE, grouped |-> <<>>]

----------------------------------------------------------------------------
(* The values the data files are drawn from. *)

a1 == <<"a","1">>
a2 == <<"a","2">>
r1 == <<"r","1">>
r2 == <<"r","2">>
r9 == <<"r","9">>
n1 == <<"n","1">>
n2 == <<"n","2">>
n3 == <<"n","3">>

Jan == <<"J","a","n">>
Feb == <<"F","e","b">>
Mar == <<"M","a","r">>
bogus == <<"b","o","g","u","s">>

v985 == <<"9","8",".","5">>
v972 == <<"9","7",".","2">>
v500 == <<"5","0",".","0">>

RegRow(a, r, m, v) == [area |-> a, regional |-> r, Month |-> m, Ava |-> v]

\* rows of availability_regional.csv: month labels as exported (padded, in
\* capitals, spelled out, with a year, missing, no month at all), a metric
\* that is no number, a missing regional
RegionalRowPool ==
    { RegRow(a1, r1, Mar, v985),
      RegRow(a1, r1, Jan, v972),
      RegRow(a1, r1, bogus, v500),
      RegRow(a1, r1, <<" ","j","a","n","u","a","r","y">>, v985),
      RegRow(a1, r2, <<"j","a","n","-","2","5">>, v972),
      RegRow(a2, r2, <<"F","E","B"," ">>, <<"n","/","a">>),
      RegRow(a2, r1, Feb, v500),
      RegRow(a2, NaN, NaN, v985) }

SiteRow(a, r, n, s, m, v) ==
    [area |-> a, regional |-> r, networksite |-> n, site_id |-> s,
     Month |-> m, Ava |-> v]

\* rows of availability_site.csv: a regional name used in two areas, site
\* ids in capitals and in small letters, a missing site id
SiteRowPool ==
    { SiteRow(a1, r1, n1, <<"S","1">>, Jan, v985),
      SiteRow(a1, r1, n1, <<"S","2">>, Jan, v972),
      SiteRow(a1, r2, n2, <<"T","1">>, Feb, v985),
      SiteRow(a2, r1, n3, <<"t","2">>, Jan, v500),
      SiteRow(a2, r2, n2, NaN, Feb, v972) }

p1 == <<"p","1">>
p2 == <<"p","2">>
p3 == <<"p","3">>
p4 == <<"p","4">>

\* Final KPI is a float of the sheet, here in thousandths (NaNNum: empty)
KpiRow(a, r, n, p, k) ==
    [Area |-> a, Regional |-> r, NOP |-> n, Period_str |-> p, FinalKPI |-> k]

\* rows of the sheet: scores below, at and above each boundary of the
\* colour bands, an empty score, a period that is no "%b-%y"
KpiRowPool ==
    { KpiRow(a1, r1, p1, <<"J","a","n","-","2","5">>, 79994),
      KpiRow(a1, r1, p1, <<"F","e","b","-","2","5">>, 80000),
      KpiRow(a1, r2, p2, <<"J","a","n","-","2","4">>, 84994),
      KpiRow(a1, r2, p2, <<" ","m","a","r","-","2","5"," ">>, 84996),
      KpiRow(a2, r1, p3, <<"J","a","n","-","2","5">>, 89990),
      KpiRow(a2, r1, p3, <<"F","e","b","-","2","4">>, 90000),
      KpiRow(a2, r2, p4, <<"J","a","n","-","2","5">>, 94994),
      KpiRow(a2, r2, p4, <<"F","e","b","-","2","5">>, 95000),
      KpiRow(a2, r2, p4, <<"M","a","r","-","2","5">>, NaNNum),
      KpiRow(a1, r1, p1, <<"2","0","2","5","-","0","1">>, 100000) }

\* no value of st.session_state.site_id yet
Absent == <<"absent">>

\* st.session_state before the first run: no widget has a value, and a
\* selectbox without one shows its first option
NewSession ==
    [reg_area |-> All, reg_regional |-> All,
     site_area |-> All, site_regional |-> All, site_networksite |-> All,
     site_id_search |-> <<>>, site_id |-> Absent,
     kpi_area |-> All, kpi_regional |-> All, kpi_nop |-> All,
     kpi_month |-> All, kpi_year |-> All]

NoSiteView ==
    [ran |-> FALSE, stored |-> Absent, siteid_list |-> <<All>>,
     site_filtered |-> <<>>, selected_siteid |-> All]

NoKpiView == [ran |-> FALSE, raised |-> FALSE, display_df |-> <<>>]

----------------------------------------------------------------------------
(* The start: the data file of the tab the user works in holds any rows of *)
(* its pool, nothing is loaded, no widget has a value.                     *)

Init ==
    /\ tab \in {"regional", "site", "kpi"}
    /\ loaded = FALSE
    /\ regional_csv \in IF tab = "regional"
                        THEN SeqsUpTo(RegionalRowPool, MaxRows) ELSE {<<>>}
    /\ site_csv \in IF tab = "site"
                    THEN SeqsUpTo(SiteRowPool, MaxSiteRows) ELSE {<<>>}
    /\ kpi_xlsx \in IF tab = "kpi"
                    THEN SeqsUpTo(KpiRowPool, MaxKpiRows) ELSE {<<>>}
    /\ regional_data = <<>>
    /\ site_data = <<>>
    /\ df_kpi = <<>>
    /\ session = NewSession
    /\ site_view = NoSiteView
    /\ kpi_view = NoKpiView
    /\ chart = NoChart

----------------------------------------------------------------------------
(* The Regional tab of the Monthly Availability page. *)

\* the selector "Select Area" of the block "with tab1"
RegionalArea(data, ss) ==
    Selector(data,
             [area_list |-> <<>>, selected_area |-> All,
              regional_list |-> <<>>, selected_regional |-> All,
              regional_filtered |-> data],
             "regional_filtered", "area", "area_list", "selected_area",
             OptionList(data, "area"), ss.reg_area)

\* the selector "Select Regional", which narrows nothing
RegionalRegional(ss, acc) ==
    [acc EXCEPT !.regional_list = OptionList(acc.regional_filtered, "regional"),
                !.selected_regional =
                    selectbox(OptionList(acc.regional_filtered, "regional"),
                              ss.reg_regional)]

\* the two selectors of the block on the widget values ss
RegionalSelectors(data, ss) == RegionalRegional(ss, RegionalArea(data, ss))

\* what the block leaves once the selectors gave sel: the widget values and
\* the chart
RegionalRun(data, ss, sel) ==
    [data    |-> data,
     session |-> [ss EXCEPT !.reg_area = sel.selected_area,
                            !.reg_regional = sel.selected_regional],
     chart   |-> plot_line_chart(data, "regional",
                     << <<"area", sel.selected_area>>,
                        <<"regional", sel.selected_regional>> >>)]

\* one run of the block "with tab1" on the frame data and the widget
\* values ss: the widget values it leaves and the chart it draws
RegionalTab(data, ss) == RegionalRun(data, ss, RegionalSelectors(data, ss))

\* the first run: load_data_ava_monthly (cached from then on), then the tab
LoadRegional ==
    /\ tab = "regional"
    /\ ~loaded
    /\ loaded' = TRUE
    /\ \E run \in {RegionalTab(clean_month(regional_csv), session)} :
          /\ regional_data' = run.data
          /\ session' = run.session
          /\ chart' = run.chart
    /\ UNCHANGED <<tab, regional_csv, site_csv, kpi_xlsx, site_data, df_kpi,
                   site_view, kpi_view>>

FilterAreas == {All, a2}
FilterRegionals == {All, r1, r9}

\* plot_line_chart on the loaded frame and any filter map: its contract
\* covers every map, also one that names a value the data does not hold
ApplyPlotLineChart ==
    /\ tab = "regional"
    /\ loaded
    /\ \E a \in FilterAreas, r \in FilterRegionals :
          chart' = plot_line_chart(regional_data, "regional",
                                   << <<"area", a>>, <<"regional", r>> >>)
    /\ UNCHANGED <<tab, loaded, regional_csv, site_csv, kpi_xlsx,
                   regional_data, site_data, df_kpi, session, site_view,
                   kpi_view>>

InitChart == tab = "regional" /\ Init

NextChart ==
    \/ LoadRegional
    \/ ApplyPlotLineChart

SpecChart == InitChart /\ [][NextChart]_vars

----------------------------------------------------------------------------
(* The Site tab of the Monthly Availability page. *)

\* what the user may type into "Search Site ID"
SearchTexts == { <<>>, <<"s">>, <<" ","2">>, <<"x">>, <<".","1">> }

\* str.contains(pat, case=False): pat is searched as a regular expression,
\* here a text in which "." stands for any character
str_contains(s, pat) ==
    \E i \in 1..(Len(s) - Len(pat) + 1) :
        \A j \in 1..Len(pat) :
            pat[j] = "." \/ lower(pat[j]) = lower(s[i + j - 1])

\* site_filtered[site_filtered["site_id"].astype(str).str.contains(
\*     site_id_search.strip(), case=False)] when the text is not empty
SearchRows(df, site_id_search) ==
    IF site_id_search # <<>>
    THEN SelectSeq(df, LAMBDA r :
             str_contains(astype_str(r.site_id), strip(site_id_search)))
    ELSE df

\* the selector "Select Area" of the block "with tab3"
SiteArea(data, ss) ==
    Selector(data,
             [area_list |-> <<>>, selected_area |-> All,
              regional_list |-> <<>>, selected_regional |-> All,
              networksite_list |-> <<>>, selected_networksite |-> All,
              siteid_list |-> <<>>, site_filtered |-> data],
             "site_filtered", "area", "area_list", "selected_area",
             OptionList(data, "area"), ss.site_area)

\* the selector "Select Regional"
SiteRegional(data, ss, acc) ==
    Selector(data, acc, "site_filtered", "regional",
             "regional_list", "selected_regional",
             OptionList(acc.site_filtered, "regional"), ss.site_regional)

\* the selector "Select Network Site"
SiteNetworksite(data, ss, acc) ==
    Selector(data, acc, "site_filtered", "networksite",
             "networksite_list", "selected_networksite",
             OptionList(acc.site_filtered, "networksite"),
             ss.site_networksite)

\* the text input "Search Site ID", then siteid_list
SiteSearch(ss, acc) ==
    [acc EXCEPT
        !.site_filtered = SearchRows(@, ss.site_id_search),
        !.siteid_list = OptionList(SearchRows(acc.site_filtered,
                                              ss.site_id_search), "site_id")]

\* the selectors of the block "with tab3" on the widget values ss, down to
\* siteid_list
SiteSelectors(data, ss) ==
    SiteSearch(ss,
        SiteNetworksite(data, ss,
            SiteRegional(data, ss, SiteArea(data, ss))))

site_id_repair_if_absent(stored, siteid_list) ==
    IF stored = Absent
    THEN IF Len(siteid_list) > 1 THEN Range(Tail(siteid_list)) ELSE {All}
    ELSE {stored}

site_id_repair_any_option(stored, siteid_list) ==
    IF stored = Absent \/ stored \notin Range(siteid_list)
    THEN Range(siteid_list)
    ELSE {stored}

\* "if 'site_id' not in st.session_state or st.session_state.site_id not in
\* siteid_list: st.session_state.site_id = random.choice(siteid_list[1:]) if
\* len(siteid_list) > 1 else 'All'": the values the session may hold after
site_id_repair(stored, siteid_list) ==
    IF stored = Absent \/ stored \notin Range(siteid_list)
    THEN IF Len(siteid_list) > 1 THEN Range(Tail(siteid_list)) ELSE {All}
    ELSE {stored}

ChartFrameNarrowed(full, narrowed) == narrowed

\* the frame the tab hands to plot_line_chart: site_data
ChartFrame(full, narrowed) == full

\* what the block leaves once the selectors gave sel and the session holds
\* the site id sid: the widget values, the lists and the chart
SiteRun(data, ss, sel, sid) ==
    [session |-> [ss EXCEPT !.site_area = sel.selected_area,
                            !.site_regional = sel.selected_regional,
                            !.site_networksite = sel.selected_networksite,
                            !.site_id = sid],
     site_view |-> [ran |-> TRUE, stored |-> ss.site_id,
                    siteid_list |-> sel.siteid_list,
                    site_filtered |-> sel.site_filtered,
                    selected_siteid |-> sid],
     chart |-> plot_line_chart(
                   ChartFrame(data, sel.site_filtered), "site_id",
                   << <<"area", sel.selected_area>>,
                      <<"regional", sel.selected_regional>>,
                      <<"networksite", sel.selected_networksite>>,
                      <<"site_id", sid>> >>)]

\* the runs of the block on the frame data and the widget values ss, one
\* for each value random.choice may return
SiteTabRuns(data, ss) ==
    UNION { { SiteRun(data, ss, sel, sid) :
                sid \in site_id_repair(ss.site_id, sel.siteid_list) } :
            sel \in {SiteSelectors(data, ss)} }

SiteTab(data, ss) ==
    \E run \in SiteTabRuns(data, ss) :
        /\ session' = run.session
        /\ site_view' = run.site_view
        /\ chart' = run.chart

\* the selectors as the last run showed them
SiteShown == SiteSelectors(site_data, session)

\* the first run: load_data_ava_monthly (cached from then on), then the tab
LoadSite ==
    /\ tab = "site"
    /\ ~loaded
    /\ loaded' = TRUE
    /\ site_data' = clean_month(site_csv)
    /\ SiteTab(clean_month(site_csv), session)
    /\ UNCHANGED <<tab, regional_csv, site_csv, kpi_xlsx, regional_data,
                   df_kpi, kpi_view>>

\* the user picks an area; the script runs again
SelectSiteArea ==
    /\ tab = "site"
    /\ loaded
    /\ \E a \in Range(SiteShown.area_list) :
          SiteTab(site_data, [session EXCEPT !.site_area = a])
    /\ UNCHANGED <<tab, loaded, regional_csv, site_csv, kpi_xlsx,
                   regional_data, site_data, df_kpi, kpi_view>>

\* the user picks a regional; the script runs again
SelectSiteRegional ==
    /\ tab = "site"
    /\ loaded
    /\ \E r \in Range(SiteShown.regional_list) :
          SiteTab(site_data, [session EXCEPT !.site_regional = r])
    /\ UNCHANGED <<tab, loaded, regional_csv, site_csv, kpi_xlsx,
                   regional_data, site_data, df_kpi, kpi_view>>

\* the user picks a network site; the script runs again
SelectSiteNetworksite ==
    /\ tab = "site"
    /\ loaded
    /\ \E n \in Range(SiteShown.networksite_list) :
          SiteTab(site_data, [session EXCEPT !.site_networksite = n])
    /\ UNCHANGED <<tab, loaded, regional_csv, site_csv, kpi_xlsx,
                   regional_data, site_data, df_kpi, kpi_view>>

\* the user edits the search text; the script runs again
TypeSiteSearch ==
    /\ tab = "site"
    /\ loaded
    /\ \E q \in SearchTexts :
          SiteTab(site_data, [session EXCEPT !.site_id_search = q])
    /\ UNCHANGED <<tab, loaded, regional_csv, site_csv, kpi_xlsx,
                   regional_data, site_data, df_kpi, kpi_view>>

\* the user picks a site id, which the widget stores under the key
\* "site_id"; the script runs again
SelectSiteId ==
    /\ tab = "site"
    /\ loaded
    /\ \E s \in Range(site_view.siteid_list) :
          SiteTab(site_data, [session EXCEPT !.site_id = s])
    /\ UNCHANGED <<tab, loaded, regional_csv, site_csv, kpi_xlsx,
                   regional_data, site_data, df_kpi, kpi_view>>

InitSite == tab = "site" /\ Init

NextSite ==
    \/ LoadSite
    \/ SelectSiteArea
    \/ SelectSiteRegional
    \/ SelectSiteNetworksite
    \/ TypeSiteSearch
    \/ SelectSiteId

SpecSite == InitSite /\ [][NextSite]_vars

----------------------------------------------------------------------------
(* The tab "ENOM KPI SONL1" of the KPI page. *)

\* pd.to_datetime(Period_str, format="%b-%y"): the month and the year as
\* strftime("%b") and str(year) give them, or ok = FALSE when it raises
ParsePeriod(s) ==
    LET ok == /\ Len(s) = 6
              /\ s[4] = "-"
              /\ IsDigit(s[5]) /\ IsDigit(s[6])
              /\ IndexOf(valid_months, title(SubSeq(s, 1, 3))) # 0
    IN  IF ~ok THEN [ok |-> FALSE, Month |-> <<>>, Year |-> <<>>]
        ELSE [ok |-> TRUE,
              Month |-> title(SubSeq(s, 1, 3)),
              Year |-> IF DigitVal(s[5]) * 10 + DigitVal(s[6]) < 69
                       THEN <<"2","0",s[5],s[6]>>
                       ELSE <<"1","9",s[5],s[6]>>]

\* load_kpi_data: Period_str stripped, Month and Year parsed from it
load_kpi_data(sheet) ==
    [i \in 1..Len(sheet) |->
        LET ps == strip(astype_str(sheet[i].Period_str))
        IN  [Area |-> sheet[i].Area, Regional |-> sheet[i].Regional,
             NOP |-> sheet[i].NOP, Period_str |-> ps,
             Month |-> ParsePeriod(ps).Month, Year |-> ParsePeriod(ps).Year,
             FinalKPI |-> sheet[i].FinalKPI]]

load_kpi_data_raises(sheet) ==
    \E i \in 1..Len(sheet) :
        ~ParsePeriod(strip(astype_str(sheet[i].Period_str))).ok

\* ["All"] + sorted(unique_months, key=lambda x: month_order.index(x))
MonthList(df) ==
    <<All>> \o SelectSeq(valid_months, LAMBDA m : m \in unique(df, "Month"))

\* "{:.2f}".format(x), pd.to_numeric and .round(2): thousandths to the
\* nearest hundredth (no score of the model lies halfway)
Format2f(x) == IF x = NaNNum THEN NaNNum ELSE (x + 5) \div 10

color_final_kpi_le(val) ==
    IF val = NaNNum THEN ""
    ELSE IF val <= 8000 THEN "background-color: #FF0000"
    ELSE IF 8000 <= val /\ val < 8500 THEN "background-color: orange"
    ELSE IF 8500 <= val /\ val < 9000 THEN "background-color: #92D050"
    ELSE IF 9000 <= val /\ val < 9500 THEN "background-color: #00B050"
    ELSE IF val >= 9500 THEN "background-color: #00B0F0"
    ELSE ""

\* color_final_kpi(val), val in hundredths; every comparison with a float
\* NaN is false
color_final_kpi(val) ==
    IF val = NaNNum THEN ""
    ELSE IF val < 8000 THEN "background-color: #FF0000"
    ELSE IF 8000 <= val /\ val < 8500 THEN "background-color: orange"
    ELSE IF 8500 <= val /\ val < 9000 THEN "background-color: #92D050"
    ELSE IF 9000 <= val /\ val < 9500 THEN "background-color: #00B050"
    ELSE IF val >= 9500 THEN "background-color: #00B0F0"
    ELSE ""

\* the selector "Select Area" of the block "with tab1"
KpiArea(data, ss) ==
    Selector(data,
             [area_list |-> <<>>, selected_area |-> All,
              regional_list |-> <<>>, selected_regional |-> All,
              nop_list |-> <<>>, selected_nop |-> All,
              month_list |-> <<>>, selected_month |-> All,
              year_list |-> <<>>, selected_year |-> All,
              filter_df |-> data],
             "filter_df", "Area", "area_list", "selected_area",
             OptionList(data, "Area"), ss.kpi_area)

\* the selector "Select Regional"
KpiRegional(data, ss, acc) ==
    Selector(data, acc, "filter_df", "Regional",
             "regional_list", "selected_regional",
             OptionList(acc.filter_df, "Regional"), ss.kpi_regional)

\* the selector "Select NOP"
KpiNop(data, ss, acc) ==
    Selector(data, acc, "filter_df", "NOP", "nop_list", "selected_nop",
             OptionList(acc.filter_df, "NOP"), ss.kpi_nop)

\* the selector "Select Month"
KpiMonth(data, ss, acc) ==
    Selector(data, acc, "filter_df", "Month", "month_list", "selected_month",
             MonthList(acc.filter_df), ss.kpi_month)

\* the selector "Select Year"
KpiYear(data, ss, acc) ==
    Selector(data, acc, "filter_df", "Year", "year_list", "selected_year",
             OptionList(acc.filter_df, "Year"), ss.kpi_year)

\* the five selectors of the block "with tab1" on the widget values ss
KpiSelectors(data, ss) ==
    KpiYear(data, ss,
        KpiMonth(data, ss,
            KpiNop(data, ss,
                KpiRegional(data, ss, KpiArea(data, ss)))))

\* what the block leaves once the selectors gave sel: the widget values
\* and the styled table
KpiRun(ss, sel) ==
    [session |-> [ss EXCEPT !.kpi_area = sel.selected_area,
                            !.kpi_regional = sel.selected_regional,
                            !.kpi_nop = sel.selected_nop,
                            !.kpi_month = sel.selected_month,
                            !.kpi_year = sel.selected_year],
     kpi_view |->
        [ran |-> TRUE, raised |-> FALSE,
         display_df |->
            [i \in 1..Len(sel.filter_df) |->
                [NOP |-> sel.filter_df[i].NOP,
                 Period_str |-> sel.filter_df[i].Period_str,
                 FinalKPI |-> Format2f(sel.filter_df[i].FinalKPI),
                 color |-> color_final_kpi(
                             Format2f(sel.filter_df[i].FinalKPI))]]]]

\* one run of the block on the frame data and the widget values ss
KpiTabRun(data, ss) ==
    CHOOSE run \in { KpiRun(ss, sel) : sel \in {KpiSelectors(data, ss)} } :
        TRUE

KpiTab(data, ss) ==
    \E run \in {KpiTabRun(data, ss)} :
        /\ session' = run.session
        /\ kpi_view' = run.kpi_view

\* the selectors as the last run showed them
KpiShown == KpiSelectors(df_kpi, session)

\* the first run: load_kpi_data (cached from then on), then the tab
LoadKpi ==
    /\ tab = "kpi"
    /\ ~loaded
    /\ ~load_kpi_data_raises(kpi_xlsx)
    /\ loaded' = TRUE
    /\ df_kpi' = load_kpi_data(kpi_xlsx)
    /\ KpiTab(load_kpi_data(kpi_xlsx), session)
    /\ UNCHANGED <<tab, regional_csv, site_csv, kpi_xlsx, regional_data,
                   site_data, site_view, chart>>

\* the first run when pd.to_datetime raises: the run ends there, nothing is
\* cached and no tab is drawn
LoadKpiRaises ==
    /\ tab = "kpi"
    /\ ~loaded
    /\ load_kpi_data_raises(kpi_xlsx)
    /\ kpi_view' = [kpi_view EXCEPT !.raised = TRUE]
    /\ UNCHANGED <<tab, loaded, regional_csv, site_csv, kpi_xlsx,
                   regional_data, site_data, df_kpi, session, site_view,
                   chart>>

\* the user picks an area; the script runs again
SelectKpiArea ==
    /\ tab = "kpi"
    /\ loaded
    /\ \E a \in Range(KpiShown.area_list) :
          KpiTab(df_kpi, [session EXCEPT !.kpi_area = a])
    /\ UNCHANGED <<tab, loaded, regional_csv, site_csv, kpi_xlsx,
                   regional_data, site_data, df_kpi, site_view, chart>>

\* the user picks a regional; the script runs again
SelectKpiRegional ==
    /\ tab = "kpi"
    /\ loaded
    /\ \E r \in Range(KpiShown.regional_list) :
          KpiTab(df_kpi, [session EXCEPT !.kpi_regional = r])
    /\ UNCHANGED <<tab, loaded, regional_csv, site_csv, kpi_xlsx,
                   regional_data, site_data, df_kpi, site_view, chart>>

\* the user picks a NOP; the script runs again
SelectKpiNop ==
    /\ tab = "kpi"
    /\ loaded
    /\ \E n \in Range(KpiShown.nop_list) :
          KpiTab(df_kpi, [session EXCEPT !.kpi_nop = n])
    /\ UNCHANGED <<tab, loaded, regional_csv, site_csv, kpi_xlsx,
                   regional_data, site_data, df_kpi, site_view, chart>>

\* the user picks a month; the script runs again
SelectKpiMonth ==
    /\ tab = "kpi"
    /\ loaded
    /\ \E m \in Range(KpiShown.month_list) :
          KpiTab(df_kpi, [session EXCEPT !.kpi_month = m])
    /\ UNCHANGED <<tab, loaded, regional_csv, site_csv, kpi_xlsx,
                   regional_data, site_data, df_kpi, site_view, chart>>

\* the user picks a year; the script runs again
SelectKpiYear ==
    /\ tab = "kpi"
    /\ loaded
    /\ \E y \in Range(KpiShown.year_list) :
          KpiTab(df_kpi, [session EXCEPT !.kpi_year = y])
    /\ UNCHANGED <<tab, loaded, regional_csv, site_csv, kpi_xlsx,
                   regional_data, site_data, df_kpi, site_view, chart>>

InitKpi == tab = "kpi" /\ Init

NextKpi ==
    \/ LoadKpi
    \/ LoadKpiRaises
    \/ SelectKpiArea
    \/ SelectKpiRegional
    \/ SelectKpiNop
    \/ SelectKpiMonth
    \/ SelectKpiYear

SpecKpi == InitKpi /\ [][NextKpi]_vars

----------------------------------------------------------------------------
(* The three tabs together: the user works in one of them. *)

Next == NextChart \/ NextSite \/ NextKpi

Spec == Init /\ [][Next]_vars

----------------------------------------------------------------------------
(* Properties of plot_line_chart, checked under SpecChart, where every     *)
(* call is on regional_data.                                               *)

\* whether row r equals the selected value on every concrete filter
RowMatches(r, filters) ==
    \A k \in 1..Len(filters) :
        \/ filters[k][2] = All
        \/ r[filters[k][1]] # NaN /\ r[filters[k][1]] = filters[k][2]

\* C2: when no row of the data frame matches all concrete filters, the call
\* warns, draws no chart and returns before the coercion and grouping steps.
EmptyAfterFilterWarns ==
    (/\ chart.status # "none"
     /\ \A i \in 1..Len(regional_data) :
           ~RowMatches(regional_data[i], chart.filters))
    => /\ chart.status = "warning"
       /\ ~chart.coerced
       /\ chart.grouped = <<>>

\* a frame that holds rows, filtered to a value none of them has
EmptyAfterFilterReached ==
    /\ chart.status = "warning"
    /\ Len(regional_data) > 0
    /\ chart.filtered = <<>>
    /\ \E k \in 1..Len(chart.filters) : chart.filters[k][2] = r9

\* C3: when the filtered rows are not empty and the aggregation yields no
\* point, the call signals "no data" and draws no chart.
EmptyAfterAggregationWarns ==
    (/\ chart.status # "none"
     /\ Len(chart.filtered) > 0
     /\ chart.grouped = <<>>)
    => chart.status = "warning"

\* C4: the charted series holds at most one point for each pair of month
\* and group key.
OnePointPerKey ==
    \A i, j \in 1..Len(chart.grouped) :
        (/\ chart.grouped[i].Month = chart.grouped[j].Month
         /\ chart.grouped[i].key = chart.grouped[j].key) => i = j

\* two rows of one regional whose labels differ in the file and name the
\* same month, charted as one point, their mean
OnePointPerKeyReached ==
    /\ chart.status = "chart"
    /\ Len(regional_csv) = 2
    /\ regional_csv[1].Month # regional_csv[2].Month
    /\ Len(chart.filtered) = 2
    /\ chart.filtered[1].Month = Jan
    /\ chart.filtered[2].Month = Jan
    /\ chart.grouped = << [Month |-> 1, key |-> r1, Ava |-> 9785] >>

\* C5: no call ends in the error of the month conversion; every point of
\* the series has a month of Jan..Dec; the series is in the order of the
\* calendar month, then of the group key; and it is the same series when
\* the rows of the frame come in the opposite order.
PeriodsValidAndOrdered ==
    /\ chart.status # "error"
    /\ \A i \in 1..Len(chart.grouped) : chart.grouped[i].Month \in 1..12
    /\ \A i \in 1..Len(chart.grouped) - 1 :
          \/ chart.grouped[i].Month < chart.grouped[i+1].Month
          \/ /\ chart.grouped[i].Month = chart.grouped[i+1].Month
             /\ ~StrLess(chart.grouped[i+1].key, chart.grouped[i].key)
    /\ chart.status # "none" =>
          chart.grouped = plot_line_chart(Reverse(regional_data),
                              chart.group_col, chart.filters).grouped

\* rows for Mar, Jan and "bogus", charted as the points Jan then Mar
PeriodsExampleReached ==
    /\ Len(regional_csv) = 3
    /\ regional_csv[1].Month = Mar /\ regional_csv[1].Ava = v985
    /\ regional_csv[2].Month = Jan /\ regional_csv[2].Ava = v972
    /\ regional_csv[3].Month = bogus /\ regional_csv[3].Ava = v500
    /\ chart.status = "chart"
    /\ chart.grouped = << [Month |-> 1, key |-> r1, Ava |-> 9720],
                          [Month |-> 3, key |-> r1, Ava |-> 9850] >>

----------------------------------------------------------------------------
(* Properties of the Site tab, checked under SpecSite. *)

\* C1: after every run of the Site tab the site id the session holds is a
\* member of the site-id list of that run: "All", or a site id of a row of
\* the narrowed frame; it is also the value the selector returns.
SiteIdInOptions ==
    site_view.ran =>
        /\ session.site_id \in Range(site_view.siteid_list)
        /\ site_view.selected_siteid = session.site_id
        /\ \/ session.site_id = All
           \/ \E i \in 1..Len(site_view.site_filtered) :
                 site_view.site_filtered[i].site_id = session.site_id

\* a run that met a stored site id the narrowed frame no longer holds
StaleSiteIdRepaired ==
    /\ site_view.ran
    /\ site_view.stored # Absent
    /\ site_view.stored # All
    /\ site_view.stored \notin Range(site_view.siteid_list)
    /\ session.site_id \in Range(site_view.siteid_list)

\* C8: the rows plot_line_chart aggregates are the rows of the complete
\* site_data that equal the selection on every dimension whose selection
\* is not "All", whatever the selectors narrowed.
ChartFiltersFullData ==
    site_view.ran =>
        /\ chart.filters = << <<"area", session.site_area>>,
                              <<"regional", session.site_regional>>,
                              <<"networksite", session.site_networksite>>,
                              <<"site_id", session.site_id>> >>
        /\ chart.filtered =
              SelectSeq(site_data, LAMBDA r : RowMatches(r, chart.filters))

\* a run whose selectors narrowed the frame further than the chart's rows
ChartWiderThanSelectors ==
    /\ site_view.ran
    /\ session.site_area # All
    /\ Len(chart.filtered) > Len(site_view.site_filtered)
    /\ Len(chart.filtered) < Len(site_data)

\* C9: a stored site id that is absent or not in the list is replaced by a
\* concrete member of the list when the list has one, and by "All" only
\* when it has none; a stored site id in the list is left as it is.
RandomResetPolicy ==
    site_view.ran =>
        IF \/ site_view.stored = Absent
           \/ site_view.stored \notin Range(site_view.siteid_list)
        THEN IF Len(site_view.siteid_list) > 1
             THEN /\ session.site_id # All
                  /\ \E k \in 2..Len(site_view.siteid_list) :
                        site_view.siteid_list[k] = session.site_id
             ELSE session.site_id = All
        ELSE session.site_id = site_view.stored

\* a stale site id replaced by a concrete one
RandomResetReached ==
    /\ site_view.ran
    /\ site_view.stored # Absent
    /\ site_view.stored \notin Range(site_view.siteid_list)
    /\ Len(site_view.siteid_list) > 1
    /\ session.site_id # All

\* whether text q occurs in s, letter case aside
ContainsText(s, q) ==
    \E i \in 1..(Len(s) - Len(q) + 1) :
        \A j \in 1..Len(q) : lower(q[j]) = lower(s[i + j - 1])

----------------------------------------------------------------------------
(* Properties of the KPI tab, checked under SpecKpi. *)

\* C7: every numeric score of the styled table has the colour of its band:
\* below 80 red, from 80 orange, from 85 light green, from 90 green, from
\* 95 blue.
ColorBands ==
    \A i \in 1..Len(kpi_view.display_df) :
        LET val   == kpi_view.display_df[i].FinalKPI
            color == kpi_view.display_df[i].color
        IN  val # NaNNum =>
              /\ color # ""
              /\ (val < 8000) <=> (color = "background-color: #FF0000")
              /\ (8000 <= val /\ val < 8500)
                    <=> (color = "background-color: orange")
              /\ (8500 <= val /\ val < 9000)
                    <=> (color = "background-color: #92D050")
              /\ (9000 <= val /\ val < 9500)
                    <=> (color = "background-color: #00B050")
              /\ (val >= 9500) <=> (color = "background-color: #00B0F0")

\* a table that shows 80.00 in orange and 95.00 in blue
ColorBoundariesReached ==
    /\ \E i \in 1..Len(kpi_view.display_df) :
          /\ kpi_view.display_df[i].FinalKPI = 8000
          /\ kpi_view.display_df[i].color = "background-color: orange"
    /\ \E i \in 1..Len(kpi_view.display_df) :
          /\ kpi_view.display_df[i].FinalKPI = 9500
          /\ kpi_view.display_df[i].color = "background-color: #00B0F0"

----------------------------------------------------------------------------
(* Cascade monotonicity, checked under Spec. *)

Concrete(list) == Range(list) \ {All}

\* C6: with the earlier selections as they are, the options of a dimension
\* under a concrete value of the dimension before it are among its options
\* under "All" there; for the selectors of the Site tab and of the KPI tab.
CascadeMonotone ==
    /\ \A a \in Concrete(SiteShown.area_list) :
          Range(SiteSelectors(site_data,
                    [session EXCEPT !.site_area = a]).regional_list)
          \subseteq
          Range(SiteSelectors(site_data,
                    [session EXCEPT !.site_area = All]).regional_list)
    /\ \A r \in Concrete(SiteShown.regional_list) :
          Range(SiteSelectors(site_data,
                    [session EXCEPT !.site_regional = r]).networksite_list)
          \subseteq
          Range(SiteSelectors(site_data,
                    [session EXCEPT !.site_regional = All]).networksite_list)
    /\ \A n \in Concrete(SiteShown.networksite_list) :
          Range(SiteSelectors(site_data,
                    [session EXCEPT !.site_networksite = n]).siteid_list)
          \subseteq
          Range(SiteSelectors(site_data,
                    [session EXCEPT !.site_networksite = All]).siteid_list)
    /\ \A a \in Concrete(KpiShown.area_list) :
          Range(KpiSelectors(df_kpi,
                    [session EXCEPT !.kpi_area = a]).regional_list)
          \subseteq
          Range(KpiSelectors(df_kpi,
                    [session EXCEPT !.kpi_area = All]).regional_list)
    /\ \A r \in Concrete(KpiShown.regional_list) :
          Range(KpiSelectors(df_kpi,
                    [session EXCEPT !.kpi_regional = r]).nop_list)
          \subseteq
          Range(KpiSelectors(df_kpi,
                    [session EXCEPT !.kpi_regional = All]).nop_list)
    /\ \A n \in Concrete(KpiShown.nop_list) :
          Range(KpiSelectors(df_kpi,
                    [session EXCEPT !.kpi_nop = n]).month_list)
          \subseteq
          Range(KpiSelectors(df_kpi,
                    [session EXCEPT !.kpi_nop = All]).month_list)
    /\ \A m \in Concrete(KpiShown.month_list) :
          Range(KpiSelectors(df_kpi,
                    [session EXCEPT !.kpi_month = m]).year_list)
          \subseteq
          Range(KpiSelectors(df_kpi,
                    [session EXCEPT !.kpi_month = All]).year_list)

\* a run of the Site tab in which a regional chosen within an area leaves
\* fewer network sites than "All" regionals of that area
CascadeNarrowsReached ==
    /\ site_view.ran
    /\ session.site_area # All
    /\ session.site_regional # All
    /\ Len(SiteShown.networksite_list) <
          Len(SiteSelectors(site_data,
                  [session EXCEPT !.site_regional = All]).networksite_list)

====
